---- MODULE Spec2Model ----
(***************************************************************************)
(* The comment service of ElastiQuill (src/unnamed/part_001): threaded     *)
(* comments kept as one Elasticsearch document per root thread, replies    *)
(* embedded recursively in the `replies` array of their parent.           *)
(*                                                                         *)
(* JavaScript values are modelled as follows.  An object is a record whose *)
(* DOMAIN is the set of keys it has (an absent key is absent from the      *)
(* DOMAIN).  An array is a sequence; JavaScript index i is position i + 1. *)
(* null and undefined are the records Null and Undefined.  The value of    *)
(* `spam` (a JSON boolean or null) is one of the strings "true", "false",  *)
(* "null".  A recipient_path string is [json |-> p] when JSON.parse yields *)
(* the array p, and [text |-> s] when JSON.parse throws on it.             *)
(***************************************************************************)
EXTENDS Integers, Sequences, FiniteSets, TLC

VARIABLES
    store,      \* the comments index: document id -> _source
    nextId,     \* the next document id the index assigns
    calls,      \* createComment calls that got as far as a write to the index
    inflight,   \* reply calls suspended between esClient.get and esClient.update
    response,   \* what the operation that ran last returned or threw
    created,    \* history: live root document id -> the input that created it
    acked,      \* history: replies whose createComment returned successfully
    deleted     \* history: the nodes of the threads that were deleted

vars == <<store, nextId, calls, inflight, response, created, acked, deleted>>

----------------------------------------------------------------------------
(* Bounds of the model *)

MaxCalls == 3       \* createComment calls that get as far as a write to the index
MaxInflight == 2    \* reply calls suspended at the same time
MaxIndex == 1       \* largest reply index a caller sends
MaxPathLen == 2     \* most reply indices in a recipient path
PageSize == 2       \* hits per search / scroll page
MaxNodes == 4       \* nodes of a comment tree handed to the filter alone
MaxDocs == 6        \* documents of the corpus handed to the scan loop alone
MaxPage == 4        \* largest page size of the scan loop alone
TicksPerInterval == 2   \* ticks of the clock in one interval of the histogram

----------------------------------------------------------------------------
(* JavaScript values *)

Null == [null |-> TRUE]
Undefined == [undefined |-> TRUE]

JsBools == {"true", "false", "null"}

\* `!v` for v a JSON boolean or null
JsNot(v) == v # "true"

Has(o, k) == k \in DOMAIN o

\* { ...o, [k]: v }
With(o, k, v) == [x \in DOMAIN o \cup {k} |-> IF x = k THEN v ELSE o[x]]

\* `delete o[k]`
Without(o, k) == [x \in DOMAIN o \ {k} |-> o[x]]

Min(a, b) == IF a < b THEN a ELSE b

----------------------------------------------------------------------------
(* What callers send *)

PostIds == {"p1", "p2"}
ValidEmails == {"ann@example.org", "bob@example.org"}
Ann == [name |-> "ann", email |-> "ann@example.org"]
Bob == [name |-> "bob", email |-> "bob@example.org", website |-> ""]

\* the comments callers send, without their recipient_path
SampleComments ==
    {[post_id |-> "p1", author |-> Ann, content |-> "hi",
      user_host_address |-> "10.0.0.1", user_agent |-> "ua", spam |-> "false"],
     [post_id |-> "p1", author |-> Bob, content |-> "buy",
      user_host_address |-> "10.0.0.2", user_agent |-> "ua", spam |-> "true"],
     [post_id |-> "p2", author |-> Bob, content |-> "yo",
      user_host_address |-> "10.0.0.2", user_agent |-> "ua", spam |-> "false"],
     [post_id |-> "p2", author |-> Ann, content |-> "hm",
      user_host_address |-> "10.0.0.1", user_agent |-> "ua", spam |-> "null"]}

\* document ids a caller can name: those the index may have assigned, and 0,
\* which it never assigns
DocIds == 0 .. MaxCalls
Indices == 0 .. MaxIndex

RECURSIVE SeqsUpTo(_, _)
SeqsUpTo(S, n) ==
    IF n = 0 THEN {<<>>}
    ELSE LET shorter == SeqsUpTo(S, n - 1)
         IN  shorter \cup {Append(s, x) : s \in shorter, x \in S}

\* the arrays [documentId, i1, ..., in] a recipient_path may parse to: the
\* indices a reader of the thread can have seen, or a negative one
Paths ==
    {<<d>> \o s : d \in DocIds, s \in SeqsUpTo(Indices, MaxPathLen) \cup {<<-1>>, <<0, -1>>}}

RecipientPaths == {[json |-> p] : p \in Paths}

RootComments == {With(c, "recipient_path", Null) : c \in SampleComments}
ReplyComments == {With(c, "recipient_path", rp) : c \in SampleComments, rp \in RecipientPaths}
ValidComments == RootComments \cup ReplyComments

\* the fields createComment sets itself, with values a caller might send
CallerSupplied == [comment_id |-> 0, approved |-> TRUE, published_at |-> 0]

SampleComment ==
    [recipient_path |-> Null, post_id |-> "p1", author |-> Ann, content |-> "buy",
     user_host_address |-> "10.0.0.1", user_agent |-> "ua", spam |-> "true"]

\* inputs that violate the schema: one field missing, two fields missing, a
\* bad author, and the fields createComment sets itself
InvalidComments ==
    {Without(SampleComment, "content"),
     Without(Without(SampleComment, "content"), "post_id"),
     Without(With(SampleComment, "author", [name |-> "ann", email |-> "ann.example.org"]), "spam")}
    \cup {With(SampleComment, k, CallerSupplied[k]) : k \in DOMAIN CallerSupplied}
    \cup {With(With(SampleComment, k, CallerSupplied[k]), "recipient_path", [json |-> <<1>>]) :
            k \in DOMAIN CallerSupplied}

\* one comment under every recipient path, for the calls that fail whatever
\* the comment says
PathComments ==
    {With(SampleComment, "recipient_path", rp) :
        rp \in RecipientPaths \cup {[text |-> "oops"]}}

\* a caller names the documents it has seen, or one that never was
Names(c, next) ==
    Has(c, "recipient_path") /\ Has(c.recipient_path, "json")
        => Head(c.recipient_path.json) < next

----------------------------------------------------------------------------
(* CreateCommentArgSchema and Joi.validate *)

SchemaKeys ==
    <<"recipient_path", "post_id", "author", "content",
      "user_host_address", "user_agent", "spam">>

UnknownKeyOrder == <<"comment_id", "approved", "published_at">>

\* the "author" child schema: name and email required, email an address
AuthorErrors(a) ==
    (IF Has(a, "name") THEN <<>> ELSE <<"author.name">>)
    \o (IF Has(a, "email") /\ a.email \in ValidEmails THEN <<>> ELSE <<"author.email">>)

\* the errors of one key of the schema; every key is required()
ChildErrors(c, k) ==
    IF ~Has(c, k) THEN <<k>>
    ELSE IF k = "author" THEN AuthorErrors(c.author)
    ELSE <<>>

RECURSIVE ChildrenErrors(_, _)
ChildrenErrors(c, keys) ==
    IF keys = <<>> THEN <<>>
    ELSE ChildErrors(c, Head(keys)) \o ChildrenErrors(c, Tail(keys))

\* a schema with .unknown(): any other key is let through
UnknownAllowed(c) == <<>>

\* Joi.object().keys(...) does not allow keys the schema does not name
UnknownErrors(c) ==
    SelectSeq(UnknownKeyOrder, LAMBDA k : Has(c, k))

\* every violation of the schema: the children in schema order, then the
\* keys that are not allowed
Violations(c) == ChildrenErrors(c, SchemaKeys) \o UnknownErrors(c)

\* Joi.validate(comment, CreateCommentArgSchema): the default options abort
\* at the first violation, so result.error carries that one only
Validate(c) ==
    LET v == Violations(c)
    IN  IF v = <<>> THEN <<>> ELSE <<Head(v)>>

----------------------------------------------------------------------------
(* The new node *)

\* uid(12): a token no other comment has
Uid(n) == n + 1

\* new Date().toISOString(): the wall clock, which advances between calls
Now(n) == n + 1

\* the node approved whatever spam says
BodyApproved(c, n) ==
    LET comment == Without(c, "recipient_path")
    IN  [k \in DOMAIN comment \cup {"comment_id", "approved", "spam", "published_at"} |->
            CASE k = "comment_id" -> Uid(n)
              [] k = "approved" -> TRUE
              [] k = "spam" -> comment.spam
              [] k = "published_at" -> Now(n)
              [] OTHER -> comment[k]]

\* the node with approved set to spam, the negation lost
BodyApprovedIsSpam(c, n) ==
    LET comment == Without(c, "recipient_path")
    IN  [k \in DOMAIN comment \cup {"comment_id", "approved", "spam", "published_at"} |->
            CASE k = "comment_id" -> Uid(n)
              [] k = "approved" -> ~JsNot(comment.spam)
              [] k = "spam" -> comment.spam
              [] k = "published_at" -> Now(n)
              [] OTHER -> comment[k]]

\* { ...comment, comment_id, approved, spam, published_at } after
\* `delete comment.recipient_path`
Body(c, n) ==
    LET comment == Without(c, "recipient_path")
    IN  [k \in DOMAIN comment \cup {"comment_id", "approved", "spam", "published_at"} |->
            CASE k = "comment_id" -> Uid(n)
              [] k = "approved" -> JsNot(comment.spam)
              [] k = "spam" -> comment.spam
              [] k = "published_at" -> Now(n)
              [] OTHER -> comment[k]]

----------------------------------------------------------------------------
(* Comment trees *)

\* c.replies || []
Replies(c) == IF Has(c, "replies") THEN c.replies ELSE <<>>

TypeError == [throw |-> "TypeError"]

\* a walk that stops at the last reply when the index is past the end
RECURSIVE DescendClamped(_, _)
DescendClamped(res, indices) ==
    IF indices = <<>> THEN res
    ELSE IF res = Undefined \/ ~Has(res, "replies") THEN TypeError
    ELSE LET i == Head(indices)
         IN  DescendClamped(IF i \in 0 .. Len(res.replies) - 1
                               THEN res.replies[i + 1]
                               ELSE IF i > 0 /\ Len(res.replies) > 0
                                       THEN res.replies[Len(res.replies)] ELSE Undefined,
                            Tail(indices))

\* for (var i of repliesIndices) res = res.replies[i];
\* reading `.replies` of undefined, or indexing an undefined `replies`, throws;
\* an index outside the array yields undefined
RECURSIVE Descend(_, _)
Descend(res, indices) ==
    IF indices = <<>> THEN res
    ELSE IF res = Undefined \/ ~Has(res, "replies") THEN TypeError
    ELSE LET i == Head(indices)
         IN  Descend(IF i \in 0 .. Len(res.replies) - 1
                        THEN res.replies[i + 1] ELSE Undefined,
                     Tail(indices))

\* res.replies = res.replies || []; res.replies.push(body);  for res a node
Push(res, body) == With(res, "replies", Append(Replies(res), body))

\* a push that misses the path: the new node goes under the root
PushAtRoot(source, indices, body) == Push(source, body)

\* resp._source after the push into the node that `indices` reaches: res is
\* a reference into resp._source, so the push shows in the document
RECURSIVE PushAt(_, _, _)
PushAt(source, indices, body) ==
    IF indices = <<>> THEN Push(source, body)
    ELSE [source EXCEPT !.replies[Head(indices) + 1] = PushAt(@, Tail(indices), body)]

----------------------------------------------------------------------------
(* The nodes of a thread by their paths *)

\* the paths <<i1, ..., in>> (JavaScript indices) of the nodes of a thread,
\* <<>> being the root
RECURSIVE NodePaths(_)
NodePaths(node) ==
    {<<>>} \cup UNION {{<<i - 1>> \o p : p \in NodePaths(Replies(node)[i])} :
                            i \in 1 .. Len(Replies(node))}

\* the node of a thread at one of its paths
RECURSIVE NodeAt(_, _)
NodeAt(node, path) ==
    IF path = <<>> THEN node ELSE NodeAt(Replies(node)[Head(path) + 1], Tail(path))

\* a node without its replies
Fields(node) == Without(node, "replies")

\* the comment ids of a sequence of threads, at every depth
RECURSIVE CommentIds(_)
CommentIds(comments) ==
    UNION {{NodeAt(comments[i], p).comment_id : p \in NodePaths(comments[i])} :
                i \in 1 .. Len(comments)}

Contains(node, cid) == cid \in CommentIds(<<node>>)

----------------------------------------------------------------------------
(* The Elasticsearch client *)

NotFound == [throw |-> "NotFound"]

\* esClient.get: the document, or a 404 error
EsGet(st, id) ==
    IF id \in DOMAIN st THEN [found |-> TRUE, _source |-> st[id]] ELSE NotFound

\* esClient.index without an id: the index stores body under a new id
EsIndex(st, id, body) == st @@ (id :> body)

\* what esClient.index resolves to: the index API's acknowledgement
IndexResponse(id) == [_index |-> "blog-comments", _id |-> id, result |-> "created"]

\* an update that merges arrays too: the stored replies that doc lacks stay
EsUpdateMergingReplies(st, id, doc) ==
    LET known == {Replies(doc)[i].comment_id : i \in 1 .. Len(Replies(doc))}
        kept == SelectSeq(Replies(st[id]), LAMBDA r : r.comment_id \notin known)
    IN  [st EXCEPT ![id] = With(doc, "replies", kept \o Replies(doc))]

\* an update by query: doc goes to every document of the post of the one
\* under the id
EsUpdateByPost(st, id, doc) ==
    [d \in DOMAIN st |-> IF st[d].post_id = st[id].post_id THEN doc ELSE st[d]]

\* esClient.update with body.doc: doc is merged into the stored _source, key
\* by key, an array replacing the stored one
EsUpdate(st, id, doc) ==
    [st EXCEPT ![id] = [k \in DOMAIN @ \cup DOMAIN doc |->
                            IF k \in DOMAIN doc THEN doc[k] ELSE @[k]]]

\* esClient.delete
EsDelete(st, id) == [d \in DOMAIN st \ {id} |-> st[d]]

\* a delete by the query of getComments: the threads of the post that are
\* approved, the others stay
EsDeleteByQueryApproved(st, id) ==
    [d \in {x \in DOMAIN st : ~(st[x].post_id = id /\ st[x].approved)} |-> st[d]]

\* esClient.deleteByQuery with filter term post_id = id
EsDeleteByQuery(st, id) ==
    [d \in {x \in DOMAIN st : st[x].post_id # id} |-> st[d]]

\* reading a property of an object: undefined when it has none
Prop(o, k) == IF Has(o, k) THEN o[k] ELSE Undefined

----------------------------------------------------------------------------
(* getComments *)

\* the documents the query of getComments matches: post_id one of postIds,
\* approved true, spam not true (the fields of the document, i.e. of the root)
Matching(st, postIds) ==
    {d \in DOMAIN st :
        /\ st[d].post_id \in postIds
        /\ st[d].approved = TRUE
        /\ st[d].spam # "true"}

\* the hits of ids in ascending published_at
RECURSIVE SortedHits(_, _)
SortedHits(st, ids) ==
    IF ids = {} THEN <<>>
    ELSE LET first == CHOOSE d \in ids :
                        \A e \in ids :
                            \/ st[d].published_at < st[e].published_at
                            \/ st[d].published_at = st[e].published_at /\ d <= e
         IN  <<[_id |-> first, _source |-> st[first]]>> \o SortedHits(st, ids \ {first})

\* a scroll that loses one hit between two pages
PageSkipping(hits, from, size) ==
    IF from = 0 THEN SubSeq(hits, 1, Min(size, Len(hits)))
    ELSE SubSeq(hits, from + 2, Min(from + size + 1, Len(hits)))

\* one page of a search: the hits after the first `from`, `size` at most
Page(hits, from, size) == SubSeq(hits, from + 1, Min(from + size, Len(hits)))

\* while (resp.hits.hits.length) { all = all.concat(resp.hits.hits); resp = scroll }
RECURSIVE ScrollLoop(_, _, _, _)
ScrollLoop(hits, from, all, size) ==
    LET page == Page(hits, from, size)
    IN  IF Len(page) = 0 THEN all
        ELSE ScrollLoop(hits, from + Len(page), all \o page, size)

\* a filter that keeps an unapproved comment when a reply to it is approved
RECURSIVE filterUnlessReplied(_)
filterUnlessReplied(comments) ==
    LET kept == SelectSeq(comments,
                          LAMBDA c : \/ c.approved
                                     \/ \E i \in 1 .. Len(Replies(c)) : Replies(c)[i].approved)
    IN  [i \in 1 .. Len(kept) |->
            With(kept[i], "replies", filterUnlessReplied(Replies(kept[i])))]

\* a filter of the top level only: the replies are passed on as they are
filterTopLevel(comments) ==
    LET kept == SelectSeq(comments, LAMBDA c : c.approved)
    IN  [i \in 1 .. Len(kept) |-> With(kept[i], "replies", Replies(kept[i]))]

\* comments.filter(c => c.approved).map(c => ({...c, replies: filterNotApproved(c.replies || [])}))
RECURSIVE filterNotApproved(_)
filterNotApproved(comments) ==
    LET kept == SelectSeq(comments, LAMBDA c : c.approved)
    IN  [i \in 1 .. Len(kept) |->
            With(kept[i], "replies", filterNotApproved(Replies(kept[i])))]

\* h => ({ ...h._source, id: h._id })
HitComment(h) == With(h._source, "id", h._id)

getComments(st, postIds) ==
    LET allComments == ScrollLoop(SortedHits(st, Matching(st, postIds)), 0, <<>>, PageSize)
    IN  filterNotApproved([i \in 1 .. Len(allComments) |-> HitComment(allComments[i])])

----------------------------------------------------------------------------
(* getAllComments *)

\* the hits of a match_all search without a sort, in the order of the ids
RECURSIVE AllHits(_, _)
AllHits(st, ids) ==
    IF ids = {} THEN <<>>
    ELSE LET first == CHOOSE d \in ids : \A e \in ids : d <= e
         IN  <<[_id |-> first, _source |-> st[first]]>> \o AllHits(st, ids \ {first})

getAllComments(st) ==
    LET items == ScrollLoop(AllHits(st, DOMAIN st), 0, <<>>, PageSize)
    IN  [i \in 1 .. Len(items) |-> HitComment(items[i])]

----------------------------------------------------------------------------
(* getStats *)

RecentSize == 10    \* size: 10 of the search
TopPosts == 5       \* size: 5 of the post_ids aggregation

\* what callers pass: nothing, a post, a post and a start date
StatsArgs ==
    {<<>>} \cup {[postId |-> p] : p \in PostIds} \cup {[postId |-> "p1", startDate |-> 2]}

\* the documents the query of getStats matches: all of them, or those the
\* filters on post_id and published_at let through (the fields of the
\* document, i.e. of the root)
StatsMatching(st, args) ==
    {d \in DOMAIN st :
        /\ Has(args, "postId") => st[d].post_id = args.postId
        /\ Has(args, "startDate") => st[d].published_at >= args.startDate}

\* esClient.count
EsCount(st, ids) == [count |-> Cardinality(ids)]

\* the hits of ids in descending published_at
RECURSIVE RecentHits(_, _)
RecentHits(st, ids) ==
    IF ids = {} THEN <<>>
    ELSE LET first == CHOOSE d \in ids :
                        \A e \in ids :
                            \/ st[d].published_at > st[e].published_at
                            \/ st[d].published_at = st[e].published_at /\ d <= e
         IN  <<[_id |-> first, _source |-> st[first]]>> \o RecentHits(st, ids \ {first})

\* the post ids in ascending order
PostOrder == <<"p1", "p2">>
Rank(p) == CHOOSE i \in 1 .. Len(PostOrder) : PostOrder[i] = p

\* the buckets of the terms aggregation on post_id: most documents first,
\* equal counts by key
RECURSIVE TermsBuckets(_, _, _)
TermsBuckets(st, ids, keys) ==
    IF keys = {} THEN <<>>
    ELSE LET count(k) == Cardinality({d \in ids : st[d].post_id = k})
             first == CHOOSE k \in keys :
                        \A l \in keys :
                            \/ count(k) > count(l)
                            \/ count(k) = count(l) /\ Rank(k) <= Rank(l)
         IN  <<[key |-> first, doc_count |-> count(first)]>>
                \o TermsBuckets(st, ids, keys \ {first})

\* the interval a time falls in
Interval(t) == t \div TicksPerInterval

\* the buckets of the date histogram on published_at: one for every interval
\* from the first with a document to the last
HistogramBuckets(st, ids) ==
    IF ids = {} THEN <<>>
    ELSE LET keys == {Interval(st[d].published_at) : d \in ids}
             lo == CHOOSE k \in keys : \A l \in keys : k <= l
             hi == CHOOSE k \in keys : \A l \in keys : k >= l
         IN  [i \in 1 .. hi - lo + 1 |->
                [key |-> lo + i - 1,
                 doc_count |-> Cardinality({d \in ids :
                                   Interval(st[d].published_at) = lo + i - 1})]]

\* blogPosts.getItemsByIds: the posts of the ids, every post there
getItemsByIds(ids) == [i \in 1 .. Len(ids) |-> [id |-> ids[i]]]

getStats(st, args) ==
    LET ids == StatsMatching(st, args)
        countResp == EsCount(st, ids)
        hits == RecentHits(st, ids)
        allBuckets == TermsBuckets(st, ids, {st[d].post_id : d \in ids})
        postIdsBuckets == SubSeq(allBuckets, 1, Min(TopPosts, Len(allBuckets)))
        posts == getItemsByIds([i \in 1 .. Len(postIdsBuckets) |-> postIdsBuckets[i].key])
        find(id) == CHOOSE i \in 1 .. Len(postIdsBuckets) : postIdsBuckets[i].key = id
    IN  [commentsByDate |-> HistogramBuckets(st, ids),
         mostCommentedPosts |->
            [i \in 1 .. Len(posts) |->
                With(posts[i], "comments_count", postIdsBuckets[find(posts[i].id)].doc_count)],
         recentComments |->
            [i \in 1 .. Min(RecentSize, Len(hits)) |-> HitComment(hits[i])],
         commentsCount |-> countResp.count]

----------------------------------------------------------------------------
(* createComment *)

Returned(op, value) == [op |-> op, status |-> "ok", value |-> value]
Threw(op, name, details) ==
    [op |-> op, status |-> "error", value |-> [name |-> name, details |-> details]]
Suspended(op) == [op |-> op, status |-> "pending", value |-> Null]

\* lines 41-53: parse the path, get the document, walk to the target, push.
\* Either the error thrown, or the call as it stands when it awaits
\* esClient.update: doc is resp._source after the push, res the target node
\* after the push; read (resp._source as it was read) is kept for the record.
ReplyRead(st, c, n) ==
    IF Has(c.recipient_path, "text") THEN [ok |-> FALSE, error |-> "SyntaxError"]
    ELSE LET documentId == Head(c.recipient_path.json)
             repliesIndices == Tail(c.recipient_path.json)
             resp == EsGet(st, documentId)
         IN  IF resp = NotFound THEN [ok |-> FALSE, error |-> "NotFound"]
             ELSE LET res == Descend(resp._source, repliesIndices)
                  IN  IF res = TypeError \/ res = Undefined
                          THEN [ok |-> FALSE, error |-> "TypeError"]
                          ELSE [ok |-> TRUE,
                                call |-> [documentId |-> documentId,
                                          repliesIndices |-> repliesIndices,
                                          body |-> Body(c, n),
                                          read |-> resp._source,
                                          doc |-> PushAt(resp._source, repliesIndices, Body(c, n)),
                                          res |-> Push(res, Body(c, n))]]

\* lines 24-27: validation fails, the error is thrown
CreateInvalid(c) ==
    /\ Validate(c) # <<>>
    /\ response' = Threw("createComment", "ValidationError", Validate(c))
    /\ UNCHANGED <<store, nextId, calls, inflight, created, acked, deleted>>

\* lines 70-81: no recipient path, the node is indexed as a new document
CreateRoot(c) ==
    /\ Validate(c) = <<>>
    /\ c.recipient_path = Null
    /\ calls < MaxCalls
    /\ LET body == Body(c, calls)
           resp == IndexResponse(nextId)
       IN  /\ store' = EsIndex(store, nextId, body)
           /\ response' = Returned("createComment",
                                   [newComment |-> Prop(resp, "_source"),
                                    repliedToComment |-> Null])
    /\ created' = created @@ (nextId :> c)
    /\ nextId' = nextId + 1
    /\ calls' = calls + 1
    /\ UNCHANGED <<inflight, acked, deleted>>

\* esClient.index rejects: the store is unavailable
CreateRootFails(c) ==
    /\ Validate(c) = <<>>
    /\ c.recipient_path = Null
    /\ response' = Threw("createComment", "StoreUnavailable", <<>>)
    /\ UNCHANGED <<store, nextId, calls, inflight, created, acked, deleted>>

\* lines 40-53, then the call awaits esClient.update
CreateReplyRead(c) ==
    /\ Names(c, nextId)
    /\ Validate(c) = <<>>
    /\ c.recipient_path # Null
    /\ calls < MaxCalls
    /\ Cardinality(inflight) < MaxInflight
    /\ LET r == ReplyRead(store, c, calls)
       IN  /\ r.ok
           /\ inflight' = inflight \cup {r.call}
    /\ response' = Suspended("createComment")
    /\ calls' = calls + 1
    /\ UNCHANGED <<store, nextId, created, acked, deleted>>

\* lines 40-53 throw: the path does not parse, the document is missing, or
\* the walk leaves the tree
CreateReplyThrows(c) ==
    /\ Names(c, nextId)
    /\ Validate(c) = <<>>
    /\ c.recipient_path # Null
    /\ LET r == ReplyRead(store, c, calls)
       IN  /\ ~r.ok
           /\ response' = Threw("createComment", r.error, <<>>)
    /\ UNCHANGED <<store, nextId, calls, inflight, created, acked, deleted>>

\* esClient.get rejects: the store is unavailable
CreateReplyGetFails(c) ==
    /\ Names(c, nextId)
    /\ Validate(c) = <<>>
    /\ c.recipient_path # Null
    /\ Has(c.recipient_path, "json")
    /\ response' = Threw("createComment", "StoreUnavailable", <<>>)
    /\ UNCHANGED <<store, nextId, calls, inflight, created, acked, deleted>>

\* lines 55-68: the document is written back and the call returns
CreateReplyWrite(call) ==
    /\ call \in inflight
    /\ call.documentId \in DOMAIN store
    /\ store' = EsUpdate(store, call.documentId, call.doc)
    /\ response' = Returned("createComment",
                            [newComment |-> call.body, repliedToComment |-> call.res])
    /\ inflight' = inflight \ {call}
    /\ acked' = acked \cup {[comment_id |-> call.body.comment_id,
                             documentId |-> call.documentId,
                             repliesIndices |-> call.repliesIndices,
                             read |-> call.read]}
    /\ UNCHANGED <<nextId, calls, created, deleted>>

\* an update that creates the document when there is none under the id
CreateReplyWriteUpserts(call) ==
    /\ call \in inflight
    /\ call.documentId \notin DOMAIN store
    /\ store' = store @@ (call.documentId :> call.doc)
    /\ response' = Returned("createComment",
                            [newComment |-> call.body, repliedToComment |-> call.res])
    /\ inflight' = inflight \ {call}
    /\ UNCHANGED <<nextId, calls, created, acked, deleted>>

\* esClient.update finds no document under the id: a 404 error, the
\* document_missing_exception of the update API
CreateReplyWriteMissing(call) ==
    /\ call \in inflight
    /\ call.documentId \notin DOMAIN store
    /\ response' = Threw("createComment", "NotFound", <<"document_missing_exception">>)
    /\ inflight' = inflight \ {call}
    /\ UNCHANGED <<store, nextId, calls, created, acked, deleted>>

\* an error thrown after the document went to the index
CreateReplyWriteThenThrow(call) ==
    /\ call \in inflight
    /\ call.documentId \in DOMAIN store
    /\ store' = EsUpdate(store, call.documentId, call.doc)
    /\ response' = Threw("createComment", "StoreUnavailable", <<>>)
    /\ inflight' = inflight \ {call}
    /\ UNCHANGED <<nextId, calls, created, acked, deleted>>

\* esClient.update rejects: the store is unavailable
CreateReplyWriteFails(call) ==
    /\ call \in inflight
    /\ response' = Threw("createComment", "StoreUnavailable", <<>>)
    /\ inflight' = inflight \ {call}
    /\ UNCHANGED <<store, nextId, calls, created, acked, deleted>>

----------------------------------------------------------------------------
(* The other operations *)

GetComments(postIds) ==
    /\ response' = Returned("getComments", getComments(store, postIds))
    /\ UNCHANGED <<store, nextId, calls, inflight, created, acked, deleted>>

GetAllComments ==
    /\ response' = Returned("getAllComments", getAllComments(store))
    /\ UNCHANGED <<store, nextId, calls, inflight, created, acked, deleted>>

GetStats(args) ==
    /\ response' = Returned("getStats", getStats(store, args))
    /\ UNCHANGED <<store, nextId, calls, inflight, created, acked, deleted>>

\* the history forgets the threads that are gone from st, and records the
\* nodes of the threads the caller had deleted
Forget(st, threads) ==
    /\ created' = [d \in DOMAIN created \cap DOMAIN st |-> created[d]]
    /\ acked' = {a \in acked : a.documentId \in DOMAIN st}
    /\ deleted' = deleted \cup
            UNION {{[documentId |-> d, comment_id |-> n] : n \in CommentIds(<<store[d]>>)} :
                        d \in threads}

DeleteComment(id) ==
    /\ id \in DOMAIN store
    /\ store' = EsDelete(store, id)
    /\ response' = Returned("deleteComment", [result |-> "deleted"])
    /\ Forget(store', {id})
    /\ UNCHANGED <<nextId, calls, inflight>>

\* esClient.delete finds no document under the id: a 404 error
DeleteCommentMissing(id) ==
    /\ id \notin DOMAIN store
    /\ response' = Threw("deleteComment", "NotFound", <<>>)
    /\ UNCHANGED <<store, nextId, calls, inflight, created, acked, deleted>>

DeletePostComments(id) ==
    /\ store' = EsDeleteByQuery(store, id)
    /\ response' = Returned("deletePostComments",
                            [deleted |-> Cardinality(DOMAIN store \ DOMAIN store')])
    /\ Forget(store', {d \in DOMAIN store : store[d].post_id = id})
    /\ UNCHANGED <<nextId, calls, inflight>>

----------------------------------------------------------------------------
(* The service: the index starts empty *)

Init ==
    /\ store = <<>>
    /\ nextId = 1
    /\ calls = 0
    /\ inflight = {}
    /\ response = [op |-> "none", status |-> "none", value |-> Null]
    /\ created = <<>>
    /\ acked = {}
    /\ deleted = {}

Next ==
    \/ \E c \in RootComments \cup InvalidComments : CreateInvalid(c)
    \/ \E c \in RootComments \cup InvalidComments : CreateRoot(c)
    \/ \E c \in RootComments \cup InvalidComments : CreateRootFails(c)
    \/ \E c \in ReplyComments \cup InvalidComments : CreateReplyRead(c)
    \/ \E c \in PathComments \cup InvalidComments : CreateReplyThrows(c)
    \/ \E c \in {With(SampleComment, "recipient_path", [json |-> <<d>>]) : d \in DocIds} :
            CreateReplyGetFails(c)
    \/ \E call \in inflight : CreateReplyWrite(call)
    \/ \E call \in inflight : CreateReplyWriteMissing(call)
    \/ \E call \in inflight : CreateReplyWriteFails(call)
    \/ \E postIds \in SUBSET PostIds : GetComments(postIds)
    \/ GetAllComments
    \/ \E args \in StatsArgs : GetStats(args)
    \/ \E id \in DocIds : DeleteComment(id)
    \/ \E id \in DocIds : DeleteCommentMissing(id)
    \/ \E id \in PostIds : DeletePostComments(id)

Spec == Init /\ [][Next]_vars

----------------------------------------------------------------------------
(* C1 *)

\* C1: a successful reply changes the stored root document in exactly one
\* way.  With `read` the root document as the call read it, the document the
\* call stores has the nodes of `read` at their paths, each with its fields
\* and its number of earlier replies, and one node more: the new node, the
\* last reply of the node at the recipient path (which had no replies if it
\* had no `replies`).  No other document changes.
C1_ReplyAppendsAtPath ==
    [][\A call \in inflight :
          CreateReplyWrite(call) =>
            LET old == call.read
                new == store'[call.documentId]
                target == call.repliesIndices
                added == target \o <<Len(Replies(NodeAt(old, target)))>>
            IN  /\ target \in NodePaths(old)
                /\ NodePaths(new) = NodePaths(old) \cup {added}
                /\ \A q \in NodePaths(old) : Fields(NodeAt(new, q)) = Fields(NodeAt(old, q))
                /\ NodeAt(new, added) = call.body
                /\ ~Has(call.body, "replies")
                /\ DOMAIN store' = DOMAIN store
                /\ \A d \in DOMAIN store \ {call.documentId} : store'[d] = store[d]]_vars

\* a reply to a reply has returned: it is the last reply of the node at
\* index 0 under the root, which is still in the index
C1_Witness ==
    \E a \in acked :
        /\ a.repliesIndices = <<0>>
        /\ a.documentId \in DOMAIN store
        /\ <<0, 0>> \in NodePaths(store[a.documentId])
        /\ NodeAt(store[a.documentId], <<0, 0>>).comment_id = a.comment_id
        /\ response.op = "createComment" /\ response.status = "ok"
        /\ response.value.newComment.comment_id = a.comment_id

----------------------------------------------------------------------------
(* C2 *)

\* C2: a comment's position is permanent: in every step, every node of a
\* thread that stays in the index is afterwards at the path it was at.
C2_PositionPermanent ==
    [][\A d \in DOMAIN store \cap DOMAIN store' :
          \A q \in NodePaths(store[d]) :
              /\ q \in NodePaths(store'[d])
              /\ NodeAt(store'[d], q).comment_id = NodeAt(store[d], q).comment_id]_vars

----------------------------------------------------------------------------
(* C3 *)

\* two replies that returned successfully after reading the same root document
Raced(a, b) ==
    /\ a # b
    /\ a.documentId = b.documentId
    /\ a.read = b.read

\* C3: two replies to one thread that both read the same root document and
\* both returned successfully are never both in the stored thread: the later
\* write replaced the document the earlier one stored.
C3_LostUpdate ==
    \A a, b \in acked :
        Raced(a, b) =>
            ~(/\ Contains(store[a.documentId], a.comment_id)
              /\ Contains(store[a.documentId], b.comment_id))

\* both replies returned, the thread holds one of them and not the other
C3_Witness ==
    \E a, b \in acked :
        /\ Raced(a, b)
        /\ ~Contains(store[a.documentId], a.comment_id)
        /\ Contains(store[a.documentId], b.comment_id)
        /\ response.op = "createComment" /\ response.status = "ok"
        /\ response.value.newComment.comment_id = b.comment_id

----------------------------------------------------------------------------
(* C4 *)

\* the root nodes of a listing that carry what input c said, approved and
\* not spam
ReadBack(listing, d, c) ==
    {i \in 1 .. Len(listing) :
        /\ listing[i].id = d
        /\ listing[i].author = c.author
        /\ listing[i].content = c.content
        /\ listing[i].post_id = c.post_id
        /\ listing[i].approved = TRUE
        /\ listing[i].spam = "false"}

\* C4: a root comment created with spam false, and not deleted since, is in
\* every listing whose post ids include its own, once, as a root node with
\* the author, content and post_id of the input, approved and not spam.
C4_ReadAfterWrite ==
    \A d \in DOMAIN created :
        created[d].spam = "false" =>
            \A postIds \in SUBSET PostIds :
                created[d].post_id \in postIds =>
                    Cardinality(ReadBack(getComments(store, postIds), d, created[d])) = 1

\* getComments has just returned a root comment created with spam false,
\* after a reply went into its thread, in a listing of two threads
C4_Witness ==
    /\ response.op = "getComments"
    /\ \E d \in DOMAIN created :
        /\ created[d].spam = "false"
        /\ ReadBack(response.value, d, created[d]) # {}
        /\ Len(Replies(store[d])) > 0
        /\ Len(response.value) > 1

----------------------------------------------------------------------------
(* C5 *)

\* the comment ids getComments can return, whatever post ids it is asked for
Listed == UNION {CommentIds(getComments(store, postIds)) : postIds \in SUBSET PostIds}

\* C5: a stored comment with spam true has approved false, and neither it nor
\* any node under it is in any listing, whether it is a root or a reply.
C5_SpamSubtreeHidden ==
    \A d \in DOMAIN store :
        \A q \in NodePaths(store[d]) :
            NodeAt(store[d], q).spam = "true" =>
                /\ NodeAt(store[d], q).approved = FALSE
                /\ CommentIds(<<NodeAt(store[d], q)>>) \cap Listed = {}

\* a spam reply under a listed root has an approved reply of its own, and
\* getComments has just returned the thread
C5_Witness ==
    /\ response.op = "getComments"
    /\ \E d \in DOMAIN store :
        /\ store[d].comment_id \in CommentIds(response.value)
        /\ <<0, 0>> \in NodePaths(store[d])
        /\ NodeAt(store[d], <<0>>).spam = "true"
        /\ NodeAt(store[d], <<0, 0>>).approved = TRUE

----------------------------------------------------------------------------
(* C7 *)

\* C7: createComment with a recipient path fails when the root id names no
\* document (the 404 of esClient.get) and when the indices leave the thread
\* (the TypeError of the walk), a path through a node without `replies`
\* included; a call that is let through to its write has a target in the
\* thread it read.
C7_BadPathFails ==
    /\ \A c \in ReplyComments :
          Names(c, nextId) =>
            LET documentId == Head(c.recipient_path.json)
                indices == Tail(c.recipient_path.json)
                r == ReplyRead(store, c, calls)
            IN  /\ documentId \notin DOMAIN store => ~r.ok /\ r.error = "NotFound"
                /\ documentId \in DOMAIN store /\ indices \notin NodePaths(store[documentId])
                      => ~r.ok /\ r.error = "TypeError"
    /\ \A call \in inflight : call.repliesIndices \in NodePaths(call.read)

\* a reply has just failed on its path, in a state where root 1 has exactly
\* one reply, so that [1, 1] is out of range
C7_Witness ==
    /\ response.op = "createComment"
    /\ response.status = "error"
    /\ response.value.name = "TypeError"
    /\ 1 \in DOMAIN store
    /\ Len(Replies(store[1])) = 1
    /\ ~ReplyRead(store, With(SampleComment, "recipient_path", [json |-> <<1, 1>>]), calls).ok

----------------------------------------------------------------------------
(* C8 *)

ErrorNames == {"ValidationError", "SyntaxError", "NotFound", "TypeError", "StoreUnavailable"}

\* C8: a step of createComment changes the index exactly when the call
\* returns a result; a step that throws (or suspends) leaves the index as it
\* was, and what is thrown reaches the caller as an error.
C8_FailureWritesNothing ==
    [][response'.op = "createComment" =>
          /\ response'.status # "ok" => store' = store
          /\ response'.status = "ok" => store' # store
          /\ response'.status = "error" => response'.value.name \in ErrorNames]_vars

\* a reply that was suspended has failed at its write: the store was
\* unavailable, and the thread is as it was
C8_Witness ==
    /\ response.op = "createComment"
    /\ response.status = "error"
    /\ response.value.name = "StoreUnavailable"
    /\ calls = 2 /\ nextId = 2 /\ inflight = {} /\ acked = {}
    /\ 1 \in DOMAIN store /\ ~Has(store[1], "replies")

----------------------------------------------------------------------------
(* C9 *)

RootReturned ==
    /\ response.op = "createComment"
    /\ response.status = "ok"
    /\ response.value.repliedToComment = Null

\* C9: a successful createComment without a recipient path has created one
\* document, the new node without replies, and returns that node as
\* newComment, with repliedToComment null.
C9_RootReturnsNode ==
    RootReturned =>
        /\ nextId - 1 \in DOMAIN store
        /\ Replies(store[nextId - 1]) = <<>>
        /\ response.value.newComment = store[nextId - 1]

----------------------------------------------------------------------------
(* C10 *)

ServerFields == {"comment_id", "approved", "published_at"}

RejectedForServerField ==
    /\ response.op = "createComment"
    /\ response.status = "error"
    /\ response.value.name = "ValidationError"
    /\ Head(response.value.details) \in ServerFields

\* C10 as stated: an otherwise valid input that carries comment_id, approved
\* or published_at is accepted, so no call is rejected for carrying one.
C10_CallerValuesIgnored == ~RejectedForServerField

\* what is true of the inputs and of the stored nodes, for C10
ServerValuesStored ==
    /\ \A c \in RootComments \cup ReplyComments \cup InvalidComments :
          DOMAIN c \cap ServerFields # {} => Validate(c) # <<>>
    /\ \A d \in DOMAIN store :
          \A q \in NodePaths(store[d]) :
              LET node == NodeAt(store[d], q)
              IN  /\ node.approved = JsNot(node.spam)
                  /\ node.comment_id \in 1 .. calls
                  /\ node.published_at \in 1 .. calls
                  /\ DOMAIN Fields(node) =
                        ({SchemaKeys[i] : i \in 1 .. Len(SchemaKeys)} \ {"recipient_path"})
                            \cup ServerFields

\* C10, amended: an input that carries comment_id, approved or published_at
\* is rejected by the validation and nothing is stored for it; every stored
\* node has the values createComment made: approved is the negation of spam,
\* comment_id and published_at are ones a call drew, and the keys are those
\* of the schema and these three.
C10_ServerValuesOnly ==
    /\ []ServerValuesStored
    /\ [][RejectedForServerField' => UNCHANGED <<store, inflight, nextId, calls>>]_vars

\* a call that carried one of the three fields has just been rejected, with
\* comments in the index
C10_Witness ==
    /\ RejectedForServerField
    /\ store # <<>>

----------------------------------------------------------------------------
(* C11 *)

\* the required keys of the schema that input c lacks
MissingRequired(c) == {SchemaKeys[i] : i \in 1 .. Len(SchemaKeys)} \ DOMAIN c

ValidationFailed ==
    /\ response.op = "createComment"
    /\ response.status = "error"
    /\ response.value.name = "ValidationError"

\* C11: a ValidationError lists every violated field: whichever input the
\* rejected call carried, each required field the input lacks is among the
\* details of the error.
C11_AllViolationsListed ==
    ValidationFailed =>
        \A c \in RootComments \cup InvalidComments :
            Validate(c) = response.value.details =>
                \A k \in MissingRequired(c) :
                    \E i \in 1 .. Len(response.value.details) : response.value.details[i] = k

----------------------------------------------------------------------------
(* C12 *)

ReplyReturned ==
    /\ response.op = "createComment"
    /\ response.status = "ok"
    /\ response.value.repliedToComment # Null

\* C12: a successful reply returns the new node as newComment and, as
\* repliedToComment, the target node as the call read it: with the replies
\* it had before, and without the new node.
C12_RepliedToBeforeAttach ==
    ReplyReturned =>
        \A a \in acked :
            a.comment_id = response.value.newComment.comment_id =>
                /\ response.value.repliedToComment = NodeAt(a.read, a.repliesIndices)
                /\ ~Contains(response.value.repliedToComment, a.comment_id)
                /\ ~Has(response.value.newComment, "replies")

----------------------------------------------------------------------------
(* C13 *)

\* the comment ids getAllComments returns
Exported == CommentIds(getAllComments(store))

\* the document ids of the threads a read returns
ThreadIds(listing) == {listing[i].id : i \in 1 .. Len(listing)}

\* C13: once deleteComment or deletePostComments has returned, the threads it
\* deleted are gone for good: the documents are not in the index, and no read
\* (getComments for any post ids, getAllComments) returns a deleted thread or
\* any node that was in one, root or reply at any depth.
C13_DeletionCascades ==
    \A g \in deleted :
        /\ g.documentId \notin DOMAIN store
        /\ g.comment_id \notin Listed \cup Exported
        /\ g.documentId \notin ThreadIds(getAllComments(store))
        /\ \A postIds \in SUBSET PostIds :
              g.documentId \notin ThreadIds(getComments(store, postIds))

\* a thread with a reply was deleted, and getAllComments has just returned
\* the thread that is left
C13_Witness ==
    /\ response.op = "getAllComments"
    /\ Len(response.value) = 1
    /\ \E g, h \in deleted : g.documentId = h.documentId /\ g.comment_id # h.comment_id

----------------------------------------------------------------------------
(* C15 *)

\* the comments of post p in the index: the nodes, roots and replies, that
\* carry its post_id
CommentsOf(p) ==
    {<<d, q>> \in UNION {{<<d, q>> : q \in NodePaths(store[d])} : d \in DOMAIN store} :
        NodeAt(store[d], q).post_id = p}

\* C15: for every post p with k approved and m spam comments, roots or
\* replies, getStats({postId: p}) counts k + m comments and returns k + m
\* recent comments when there are at most ten, and getComments([p]) returns
\* the k approved ones.
C15_StatsCountAll ==
    \A p \in PostIds :
        LET all == CommentsOf(p)
            k == Cardinality({x \in all : NodeAt(store[x[1]], x[2]).approved})
            stats == getStats(store, [postId |-> p])
        IN  /\ stats.commentsCount = Cardinality(all)
            /\ Cardinality(all) <= RecentSize => Len(stats.recentComments) = Cardinality(all)
            /\ Cardinality(CommentIds(getComments(store, {p}))) = k

----------------------------------------------------------------------------
(* C16 *)

\* the nodes of a listing, at every depth
NodesOf(listing) ==
    UNION {{NodeAt(listing[i], q) : q \in NodePaths(listing[i])} : i \in 1 .. Len(listing)}

\* C16: every stored node has approved equal to the negation of spam, and
\* every node of every listing, at every depth, is approved and not spam.
C16_ListedApprovedNotSpam ==
    /\ \A d \in DOMAIN store :
          \A q \in NodePaths(store[d]) :
              NodeAt(store[d], q).approved = JsNot(NodeAt(store[d], q).spam)
    /\ \A postIds \in SUBSET PostIds :
          \A node \in NodesOf(getComments(store, postIds)) :
              node.approved = TRUE /\ node.spam # "true"

\* getComments has just returned a thread three nodes deep
C16_Witness ==
    /\ response.op = "getComments"
    /\ \E i \in 1 .. Len(response.value) : <<0, 0>> \in NodePaths(response.value[i])

----------------------------------------------------------------------------
(* C17 *)

WriteBackMissed ==
    /\ response.op = "createComment"
    /\ response.status = "error"
    /\ response.value = [name |-> "NotFound", details |-> <<"document_missing_exception">>]

\* no deleted thread is in the index
DeletedAbsent == \A g \in deleted : g.documentId \notin DOMAIN store

\* C17: a deleted thread is not in the index, whatever replies were in
\* flight on it; and when a reply that read a thread comes to its write-back
\* after the thread was deleted, the call ends with an error and the thread
\* is still not in the index.
C17_NoResurrection ==
    /\ []DeletedAbsent
    /\ [][\A call \in inflight :
            call.documentId \notin DOMAIN store /\ call \notin inflight' =>
                /\ response'.op = "createComment"
                /\ response'.status = "error"
                /\ store' = store]_vars

\* a reply read its thread, the thread was deleted, and the write-back has
\* just failed: the index is empty
C17_Witness ==
    /\ WriteBackMissed
    /\ deleted # {}
    /\ store = <<>>
    /\ inflight = {}

----------------------------------------------------------------------------
(* createComment alone, on an index that holds two threads already *)

\* the index holds two root threads, created before the calls that follow,
\* with earlier comment ids and times
InitThreads ==
    /\ \E c1, c2 \in RootComments :
          /\ c1.post_id = "p1" /\ c1.spam = "false"
          /\ c2.post_id = "p2" /\ c2.spam = "false"
          /\ store = (1 :> Body(c1, -2)) @@ (2 :> Body(c2, -1))
          /\ created = (1 :> c1) @@ (2 :> c2)
    /\ nextId = 3
    /\ calls = 0
    /\ inflight = {}
    /\ response = [op |-> "none", status |-> "none", value |-> Null]
    /\ acked = {}
    /\ deleted = {}

\* the callers send comments on the first post
NextCreate ==
    \/ \E c \in {r \in RootComments : r.post_id = "p1"} : CreateRoot(c)
    \/ \E c \in {r \in ReplyComments : r.post_id = "p1"} : CreateReplyRead(c)
    \/ \E c \in PathComments : CreateReplyThrows(c)
    \/ \E call \in inflight : CreateReplyWrite(call)
    \/ \E call \in inflight : CreateReplyWriteFails(call)

SpecThreads == InitThreads /\ [][NextCreate]_vars

----------------------------------------------------------------------------
(* C18 *)

\* no one has written to the document of an in-flight reply since it read it
Fresh(call, st) ==
    /\ call.documentId \in DOMAIN st
    /\ st[call.documentId] = call.read

\* the store after createComment of a root has run alone on st
AloneRoot(st, c) == st @@ (nextId :> Body(c, calls))

\* the store after the reply of `call` has run alone on st, from its get to
\* its update
AloneReply(st, call) ==
    [st EXCEPT ![call.documentId] = PushAt(@, call.repliesIndices, call.body)]

\* C18: createComment calls on different root documents do not interfere.
\* A step in which a call stores its comment leaves every other document as
\* it is, so every reply in flight on another document that was fresh stays
\* fresh; the write-back of a fresh reply succeeds whenever the store takes
\* it, and the store it leaves is the one the call leaves when it runs alone
\* at that moment; so is the store a new root leaves.  A comment goes missing
\* from a thread only in the write-back of a reply to that thread that is
\* not fresh.
C18_DistinctRootsIndependent ==
    [][/\ \A c \in RootComments :
            CreateRoot(c) =>
                /\ store' = AloneRoot(store, c)
                /\ \A other \in inflight : Fresh(other, store) => Fresh(other, store')
       /\ \A call \in inflight :
            /\ CreateReplyWrite(call) =>
                /\ Fresh(call, store) => store' = AloneReply(store, call)
                /\ \A other \in inflight \ {call} :
                      other.documentId # call.documentId /\ Fresh(other, store)
                          => Fresh(other, store')
                /\ \A d \in DOMAIN store :
                      ~(CommentIds(<<store[d]>>) \subseteq CommentIds(<<store'[d]>>))
                          => d = call.documentId /\ ~Fresh(call, store)
            /\ Fresh(call, store) /\ call \notin inflight' /\ response'.status = "error"
                  => response'.value.name = "StoreUnavailable"]_vars

\* a reply read its thread, then another reply read the other thread; the
\* second has just returned, its comment is in its thread, and the first is
\* still in flight, on a document no one has written to
C18_Witness ==
    /\ ReplyReturned
    /\ response.value.newComment.comment_id = 2
    /\ \E a \in acked, call \in inflight :
          /\ a.comment_id = 2
          /\ Contains(store[a.documentId], 2)
          /\ call.body.comment_id = 1
          /\ call.documentId # a.documentId
          /\ Fresh(call, store)

----------------------------------------------------------------------------
(* C19 *)

\* C19: every node of getComments(postIds), at every depth, has a post_id
\* among postIds; that is, every reply in a thread has the post_id of the
\* thread's root.
C19_ListedOfPostIds ==
    /\ \A postIds \in SUBSET PostIds :
          \A node \in NodesOf(getComments(store, postIds)) : node.post_id \in postIds
    /\ \A d \in DOMAIN store :
          \A q \in NodePaths(store[d]) : NodeAt(store[d], q).post_id = store[d].post_id

----------------------------------------------------------------------------
(* The scan loops on their own: getComments and getAllComments step by     *)
(* step, over a fixed corpus of matching documents, for every page size    *)

\* the hits of a search that n documents match, as the scroll serves them
Corpus(n) ==
    [i \in 1 .. n |->
        [_id |-> i,
         _source |-> [post_id |-> "p1", content |-> "hi", spam |-> "false",
                      comment_id |-> i, approved |-> TRUE, published_at |-> i]]]

ScanOps == {"getComments", "getAllComments"}

\* a call of op as it stands: pc is where it is, resp the page it holds,
\* cursor the hits the scroll has served, scrolls the esClient.scroll calls
Scanning(op, v) == [op |-> op, status |-> "pending", value |-> v]

InitScan ==
    /\ store = <<>>
    /\ nextId = 1
    /\ calls = 0
    /\ inflight = {}
    /\ created = <<>>
    /\ acked = {}
    /\ deleted = {}
    /\ \E op \in ScanOps, n \in 0 .. MaxDocs, size \in 1 .. MaxPage :
          response = Scanning(op, [hits |-> Corpus(n), size |-> size, pc |-> "search",
                                   resp |-> <<>>, cursor |-> 0, scrolls |-> 0,
                                   allComments |-> <<>>])

\* resp = await esClient.search({ scroll: '10s', ... }): the first page
ScanSearch ==
    /\ response.op \in ScanOps
    /\ response.status = "pending"
    /\ response.value.pc = "search"
    /\ LET v == response.value
           page == Page(v.hits, 0, v.size)
       IN  response' = Scanning(response.op,
                                [v EXCEPT !.pc = "loop", !.resp = page, !.cursor = Len(page)])
    /\ UNCHANGED <<store, nextId, calls, inflight, created, acked, deleted>>

\* the body of the while loop: the page is appended, the next one fetched
ScanScroll ==
    /\ response.op \in ScanOps
    /\ response.status = "pending"
    /\ response.value.pc = "loop"
    /\ Len(response.value.resp) # 0
    /\ LET v == response.value
           page == Page(v.hits, v.cursor, v.size)
       IN  response' = Scanning(response.op,
                                [v EXCEPT !.allComments = @ \o v.resp,
                                          !.resp = page,
                                          !.cursor = @ + Len(page),
                                          !.scrolls = @ + 1])
    /\ UNCHANGED <<store, nextId, calls, inflight, created, acked, deleted>>

\* resp.hits.hits.length is 0: the loop is left and the items are returned
ScanReturn ==
    /\ response.op \in ScanOps
    /\ response.status = "pending"
    /\ response.value.pc = "loop"
    /\ Len(response.value.resp) = 0
    /\ LET v == response.value
           items == [i \in 1 .. Len(v.allComments) |-> HitComment(v.allComments[i])]
       IN  response' = Returned(response.op,
                                [v EXCEPT !.pc = "done",
                                          !.allComments =
                                              IF response.op = "getComments"
                                                  THEN filterNotApproved(items) ELSE items])
    /\ UNCHANGED <<store, nextId, calls, inflight, created, acked, deleted>>

NextScan == ScanSearch \/ ScanScroll \/ ScanReturn

\* every store call of the loop is answered, so the call goes on
SpecScan == InitScan /\ [][NextScan]_vars /\ WF_vars(NextScan)

----------------------------------------------------------------------------
(* C14 *)

ScanReturned == response.op \in ScanOps /\ response.status = "ok"

\* a / b rounded up
CeilDiv(a, b) == (a + b - 1) \div b

\* what holds of a scan while it runs and when it has returned
ScanExact ==
    response.op \in ScanOps =>
        LET v == response.value
            n == Len(v.hits)
        IN  /\ v.cursor <= n
            /\ v.pc = "loop" =>
                /\ v.allComments \o v.resp = SubSeq(v.hits, 1, v.cursor)
                /\ v.scrolls = CeilDiv(Len(v.allComments), v.size)
            /\ ScanReturned =>
                /\ Len(v.allComments) = n
                /\ \A i \in 1 .. n :
                      /\ v.allComments[i].id = v.hits[i]._id
                      /\ Fields(v.allComments[i]) = With(v.hits[i]._source, "id", v.hits[i]._id)
                /\ v.resp = <<>>
                /\ v.scrolls = CeilDiv(n, v.size)
                /\ ScrollLoop(v.hits, 0, <<>>, v.size) = v.hits

\* C14: the scan loop of getComments and of getAllComments over a corpus of
\* N matching documents, whatever the page size, returns: it returns N
\* results, the matching documents once each and in order, after exactly as
\* many scroll calls as there are pages with hits, the last of which
\* answered with zero hits.
C14_ScanExhaustive == []ScanExact /\ <>ScanReturned

\* a scan of five documents in pages of two has returned: three pages with
\* hits, then the empty one
C14_Witness ==
    /\ ScanReturned
    /\ Len(response.value.hits) = 5
    /\ response.value.size = 2
    /\ response.value.scrolls = 3
    /\ Len(response.value.allComments) = 5

----------------------------------------------------------------------------
(* The visibility filter on its own: filterNotApproved applied to any list *)
(* of comment trees of at most MaxNodes nodes                               *)

RECURSIVE TreesOf(_), ForestsOf(_)

\* the trees of n nodes: approved or not, a leaf with `replies` empty or absent
TreesOf(n) ==
    {[approved |-> b, replies |-> f] : b \in BOOLEAN, f \in ForestsOf(n - 1)}
    \cup (IF n = 1 THEN {[approved |-> b] : b \in BOOLEAN} ELSE {})

\* the lists of trees of n nodes in all
ForestsOf(n) ==
    IF n = 0 THEN {<<>>}
    ELSE UNION {{<<t>> \o f : t \in TreesOf(k), f \in ForestsOf(n - k)} : k \in 1 .. n}

\* every node is given its place in the list as its comment_id
RECURSIVE Labelled(_, _)
Labelled(comments, prefix) ==
    [i \in 1 .. Len(comments) |->
        LET c == With(comments[i], "comment_id", prefix \o <<i>>)
        IN  IF Has(c, "replies")
                THEN [c EXCEPT !.replies = Labelled(@, prefix \o <<i>>)]
                ELSE c]

CommentLists == UNION {{Labelled(f, <<>>) : f \in ForestsOf(n)} : n \in 0 .. MaxNodes}

InitFilter ==
    /\ store = <<>>
    /\ nextId = 1
    /\ calls = 0
    /\ inflight = {}
    /\ created = <<>>
    /\ acked = {}
    /\ deleted = {}
    /\ \E comments \in CommentLists :
          response = [op |-> "filterNotApproved", status |-> "pending",
                      value |-> [comments |-> comments]]

FilterComments ==
    /\ response.op = "filterNotApproved"
    /\ response.status = "pending"
    /\ response' = Returned("filterNotApproved",
                            [comments |-> response.value.comments,
                             result |-> filterNotApproved(response.value.comments)])
    /\ UNCHANGED <<store, nextId, calls, inflight, created, acked, deleted>>

NextFilter == FilterComments

SpecFilter == InitFilter /\ [][NextFilter]_vars

----------------------------------------------------------------------------
(* C6 *)

\* the places <<i1, ..., in>> (positions from 1) of the nodes of a list
RECURSIVE Places(_)
Places(comments) ==
    UNION {{<<i>> \o q : q \in {<<>>} \cup Places(Replies(comments[i]))} :
                i \in 1 .. Len(comments)}

RECURSIVE CommentAt(_, _)
CommentAt(comments, place) ==
    IF Len(place) = 1 THEN comments[Head(place)]
    ELSE CommentAt(Replies(comments[Head(place)]), Tail(place))

\* a node is visible when it and every node above it is approved
Visible(comments, place) ==
    \A k \in 1 .. Len(place) : CommentAt(comments, SubSeq(place, 1, k)).approved

\* where a visible node goes: at each level, behind the approved siblings
\* that precede it
RECURSIVE PlaceAfter(_, _)
PlaceAfter(comments, place) ==
    IF place = <<>> THEN <<>>
    ELSE <<Cardinality({j \in 1 .. Head(place) : comments[j].approved})>>
            \o PlaceAfter(Replies(comments[Head(place)]), Tail(place))

FilterReturned == response.op = "filterNotApproved" /\ response.status = "ok"

\* C6: the result of the filter has exactly the visible nodes of its input,
\* each with the fields it had and a `replies` of its own, siblings in the
\* order they were in; an unapproved node is gone with everything under it.
C6_FilterIsReference ==
    FilterReturned =>
        LET comments == response.value.comments
            result == response.value.result
            visible == {q \in Places(comments) : Visible(comments, q)}
        IN  /\ Places(result) = {PlaceAfter(comments, q) : q \in visible}
            /\ \A q \in visible :
                  LET kept == CommentAt(result, PlaceAfter(comments, q))
                  IN  /\ Fields(kept) = Fields(CommentAt(comments, q))
                      /\ Has(kept, "replies")
            /\ \A q \in Places(result) : CommentAt(result, q).approved

\* the filter has run on: an unapproved comment with an approved reply, then
\* an approved comment with an unapproved reply; one comment is left
C6_Witness ==
    /\ FilterReturned
    /\ Len(response.value.comments) = 2
    /\ ~response.value.comments[1].approved
    /\ Len(Replies(response.value.comments[1])) = 1
    /\ response.value.comments[1].replies[1].approved
    /\ response.value.comments[2].approved
    /\ Len(Replies(response.value.comments[2])) = 1
    /\ ~response.value.comments[2].replies[1].approved
    /\ Len(response.value.result) = 1
    /\ response.value.result[1].comment_id = <<2>>
    /\ response.value.result[1].replies = <<>>

====
